---- MODULE Spec2Model ----
(***************************************************************************)
(* The position/membership registry of squirrel-master (PositionManager). *)
(* Callers are goroutines; every action is one step of one call, cut at   *)
(* the points where the Go code can block or where another goroutine can  *)
(* observe a difference (lock acquisition, channel send).                 *)
(***************************************************************************)
EXTENDS Integers, Sequences, FiniteSets, TLC

\* ------------------------------------------------------------- bounds
MaxCapacity == 2
NumCallers == 2
MaxChans == 2
MaxLists == 2

MaxChanCap == 1
NotifyCapacity == 4

Callers == 1..NumCallers
Chans == 1..MaxChans

\* ---------------------------------------------------------- positions
ZeroPos == [X |-> 0, Y |-> 0, Height |-> 0]
MkPos(x, y, h) == [X |-> x, Y |-> y, Height |-> h]
InputPositions == {MkPos(1, 2, 0), MkPos(0, 1, 2)}

\* ------------------------------------------------------------- errors
Nil == "nil"
ErrIndex == "invalid index"
ErrDisabled == "node is disabled"
ErrAddr == "hardware address is not found"
Panic == "panic: index out of range"

\* math.MaxFloat64, the sentinel of Distance; distances are in hundredths.
MaxFloat64 == 1797693134

\* ------------------------------------------------------ address resolver
HardAddrs == {"hwA", "hwB", "hwZ"}
AddrTable == ("hwA" :> 0) @@ ("hwB" :> MaxCapacity)
GetS(hardAddr) ==
    IF hardAddr \in DOMAIN AddrTable
    THEN [id |-> AddrTable[hardAddr], ok |-> TRUE]
    ELSE [id |-> 0, ok |-> FALSE]

VARIABLES
    capacity,        \* len(p.pos), fixed by NewPositionManager
    pos,             \* p.pos
    mu,              \* p.mu: per slot [writer, readers]
    isEnabled,       \* p.isEnabled
    enabledChanged,  \* p.enabledChanged: sequence of channels
    muEnabled,       \* p.muEnabled: [writer, readers]
    chanCap,         \* buffer capacity of each subscriber channel
    chanBuf,         \* lists buffered in each channel
    received,        \* lists each subscriber has taken from its channel
    pc,              \* position of each caller in its call
    call,            \* the call each caller is in
    loc,             \* locals of the call (on0, history: Distance(i, i) began with i "on")
    ret,             \* what the call returned
    flagHist,        \* history: "fresh", "on" (enabled, never disabled), "cycled"
    written,         \* history: arguments of the last successful Set per slot
    regFlags,        \* history: the flags when each channel was registered
    callsSince       \* history: membership calls applied since registration

vars == <<capacity, pos, mu, isEnabled, enabledChanged, muEnabled, chanCap,
          chanBuf, received, pc, call, loc, ret, flagHist, written,
          regFlags, callsSince>>

posVars == <<pos, mu, written>>
memberVars == <<isEnabled, enabledChanged, muEnabled, flagHist>>
chanVars == <<chanCap, chanBuf, received, regFlags, callsSince>>

Slots == 0..(capacity - 1)
FreeLock == [writer |-> FALSE, readers |-> 0]

NoCall == [op |-> "none", index |-> 0, index2 |-> 0, addr |-> "", arg |-> ZeroPos, ch |-> 0]
NoLoc == [tgt |-> 0, phase |-> 0, pos1 |-> ZeroPos, err1 |-> Nil,
          pos2 |-> ZeroPos, err2 |-> Nil, k |-> 0, on0 |-> FALSE]
NoRet == [err |-> Nil, pos |-> ZeroPos, dist |-> 0, flag |-> FALSE, list |-> <<>>]

\* NewPositionManager(size, addrReverse)
NewPositionManager(size) ==
    /\ capacity = size
    /\ pos = [i \in 0..(size - 1) |-> ZeroPos]
    /\ mu = [i \in 0..(size - 1) |-> FreeLock]
    /\ isEnabled = [i \in 0..(size - 1) |-> FALSE]
    /\ enabledChanged = <<>>
    /\ muEnabled = FreeLock

InitRest ==
    /\ chanBuf = [c \in Chans |-> <<>>]
    /\ received = [c \in Chans |-> <<>>]
    /\ pc = [p \in Callers |-> "idle"]
    /\ call = [p \in Callers |-> NoCall]
    /\ loc = [p \in Callers |-> NoLoc]
    /\ ret = [p \in Callers |-> NoRet]
    /\ written = [i \in Slots |-> [set |-> FALSE, pos |-> ZeroPos]]
    /\ regFlags = [c \in Chans |-> {}]
    /\ callsSince = [c \in Chans |-> <<>>]

Init ==
    /\ \E size \in 1..MaxCapacity : NewPositionManager(size)
    /\ chanCap = [c \in Chans |-> 0]
    /\ flagHist = [i \in Slots |-> "fresh"]
    /\ InitRest

\* ------------------------------------------------------------ helpers
\* A Lock() that does not wait for the holder.
CanLockAnyway(m) == TRUE

\* An RLock() that does not wait for the writer.
CanRLockAnyway(m) == TRUE

\* An RLock() that also waits while the membership lock is held for writing.
CanRLockMembersFree(m) == ~m.writer /\ ~muEnabled.writer

\* sync.RWMutex: Lock() returns once there is no writer and no reader,
\* RLock() once there is no writer.
CanLock(m) == ~m.writer /\ m.readers = 0

CanRLock(m) == ~m.writer

Ready(p) == pc[p] = "idle"

Begin(p, c, next) ==
    /\ call' = [call EXCEPT ![p] = c]
    /\ ret' = [ret EXCEPT ![p] = NoRet]
    /\ pc' = [pc EXCEPT ![p] = next]

\* The call returns r; of its locals only l stays visible.
Finish(p, r, l) ==
    /\ ret' = [ret EXCEPT ![p] = r]
    /\ pc' = [pc EXCEPT ![p] = "done"]
    /\ loc' = [loc EXCEPT ![p] = l]

\* The caller takes the result and is free to make its next call.
Return(p) ==
    /\ pc[p] = "done"
    /\ pc' = [pc EXCEPT ![p] = "idle"]
    /\ call' = [call EXCEPT ![p] = NoCall]
    /\ loc' = [loc EXCEPT ![p] = NoLoc]
    /\ ret' = [ret EXCEPT ![p] = NoRet]
    /\ UNCHANGED <<capacity, posVars, memberVars, chanVars>>

\* A range check that lets index = len(p.pos) through.
IndexOutOfRangeOffByOne(index, size) == index > size

\* index >= len(p.pos)
IndexOutOfRange(index, size) == index >= size

\* ---------------------------------------------------------------- Get
\* Get without the check of the enabled flag.
GetOutcomeUnchecked(enabled, stored) == [err |-> Nil, pos |-> stored]

\* The outcome of Get once the read lock is held.
GetOutcome(enabled, stored) ==
    IF ~enabled
    THEN [err |-> ErrDisabled, pos |-> ZeroPos]
    ELSE [err |-> Nil, pos |-> stored]

\* Entry of Get(index): the range check, before any lock.
EnterGet(p, c, l, index) ==
    IF IndexOutOfRange(index, capacity)
    THEN /\ call' = [call EXCEPT ![p] = c]
         /\ Finish(p, [NoRet EXCEPT !.err = ErrIndex], NoLoc)
    ELSE /\ call' = [call EXCEPT ![p] = c]
         /\ ret' = [ret EXCEPT ![p] = NoRet]
         /\ pc' = [pc EXCEPT ![p] = "get_rlock"]
         /\ loc' = [loc EXCEPT ![p] = [l EXCEPT !.tgt = index]]

GetCall(p) ==
    /\ Ready(p)
    /\ \E index \in 0..capacity :
          EnterGet(p, [NoCall EXCEPT !.op = "Get", !.index = index], NoLoc, index)
    /\ UNCHANGED <<capacity, posVars, memberVars, chanVars>>

GetAddrCall(p) ==
    /\ Ready(p)
    /\ \E hardAddr \in HardAddrs :
          LET c == [NoCall EXCEPT !.op = "GetAddr", !.addr = hardAddr]
              r == GetS(hardAddr)
          IN  IF ~r.ok
              THEN /\ call' = [call EXCEPT ![p] = c]
                   /\ Finish(p, [NoRet EXCEPT !.err = ErrAddr], NoLoc)
              ELSE EnterGet(p, c, NoLoc, r.id)
    /\ UNCHANGED <<capacity, posVars, memberVars, chanVars>>

\* p.mu[index].RLock()
GetRLock(p) ==
    /\ pc[p] = "get_rlock"
    /\ CanRLock(mu[loc[p].tgt])
    /\ mu' = [mu EXCEPT ![loc[p].tgt].readers = @ + 1]
    /\ pc' = [pc EXCEPT ![p] = "get_body"]
    /\ UNCHANGED <<capacity, pos, written, memberVars, chanVars, call, loc, ret>>

\* math.Sqrt, in hundredths, rounded down.
Sqrt(n) == CHOOSE r \in 0..(100 * n) : r * r <= 10000 * n /\ (r + 1) * (r + 1) > 10000 * n

Pow2(d) == d * d

\* Distance giving the sentinel only when both reads failed.
DistanceValueBothFailed(pos1, err1, pos2, err2) ==
    IF err1 # Nil /\ err2 # Nil
    THEN MaxFloat64
    ELSE Sqrt(Pow2(pos1.X - pos2.X) + Pow2(pos1.Y - pos2.Y)
              + Pow2(pos1.Height - pos2.Height))

\* Distance's result from its two reads.
DistanceValue(pos1, err1, pos2, err2) ==
    IF err1 # Nil \/ err2 # Nil
    THEN MaxFloat64
    ELSE Sqrt(Pow2(pos1.X - pos2.X) + Pow2(pos1.Y - pos2.Y)
              + Pow2(pos1.Height - pos2.Height))

\* The body of Get under the read lock, the deferred RUnlock, and what the
\* caller of Get (Get, GetAddr, Distance) does with the result.
GetBody(p) ==
    /\ pc[p] = "get_body"
    /\ LET i == loc[p].tgt
           r == GetOutcome(isEnabled[i], pos[i])
       IN  /\ mu' = [mu EXCEPT ![i].readers = @ - 1]
           /\ IF call[p].op # "Distance"
              THEN Finish(p, [NoRet EXCEPT !.err = r.err, !.pos = r.pos], NoLoc)
              ELSE IF loc[p].phase = 1
              THEN IF IndexOutOfRange(call[p].index2, capacity)
                   THEN Finish(p, [NoRet EXCEPT !.dist =
                                 DistanceValue(r.pos, r.err, ZeroPos, ErrIndex)],
                               [NoLoc EXCEPT !.err1 = r.err, !.err2 = ErrIndex,
                                             !.on0 = loc[p].on0])
                   ELSE /\ pc' = [pc EXCEPT ![p] = "get_rlock"]
                        /\ loc' = [loc EXCEPT ![p].phase = 2, ![p].pos1 = r.pos,
                                              ![p].err1 = r.err,
                                              ![p].tgt = call[p].index2]
                        /\ ret' = ret
              ELSE Finish(p, [NoRet EXCEPT !.dist =
                            DistanceValue(loc[p].pos1, loc[p].err1, r.pos, r.err)],
                          [NoLoc EXCEPT !.err1 = loc[p].err1, !.err2 = r.err,
                                        !.on0 = loc[p].on0])
    /\ UNCHANGED <<capacity, pos, written, memberVars, chanVars, call>>

\* Distance(index1, index2): entry, up to the first lock it has to wait for.
DistanceCall(p) ==
    /\ Ready(p)
    /\ \E index1 \in 0..capacity, index2 \in 0..capacity :
          LET c == [NoCall EXCEPT !.op = "Distance", !.index = index1, !.index2 = index2]
          IN  IF ~IndexOutOfRange(index1, capacity)
              THEN EnterGet(p, c, [NoLoc EXCEPT !.phase = 1,
                                     !.on0 = (index1 = index2 /\ flagHist[index1] = "on")],
                            index1)
              ELSE IF ~IndexOutOfRange(index2, capacity)
              THEN EnterGet(p, c, [NoLoc EXCEPT !.phase = 2, !.err1 = ErrIndex], index2)
              ELSE /\ call' = [call EXCEPT ![p] = c]
                   /\ Finish(p, [NoRet EXCEPT !.dist =
                             DistanceValue(ZeroPos, ErrIndex, ZeroPos, ErrIndex)],
                             [NoLoc EXCEPT !.err1 = ErrIndex, !.err2 = ErrIndex])
    /\ UNCHANGED <<capacity, posVars, memberVars, chanVars>>

\* ---------------------------------------------------------------- Set
\* Set with x and y assigned to the wrong fields.
SetStoreSwapped(old, x, y, height) == [old EXCEPT !.X = y, !.Y = x, !.Height = height]

\* The three assignments of Set.
SetStore(old, x, y, height) == [old EXCEPT !.X = x, !.Y = y, !.Height = height]

\* What each caller of Set hands to its own caller: Set returns its error,
\* SetAddr, SetPosition and SetPositionAddr call Set and drop what it returns.
SetReturn(op, err) == IF op = "Set" THEN err ELSE Nil

\* Entry of Set(index, x, y, height): the range check, before any lock.
EnterSet(p, c, index) ==
    /\ call' = [call EXCEPT ![p] = c]
    /\ IF IndexOutOfRange(index, capacity)
       THEN Finish(p, [NoRet EXCEPT !.err = SetReturn(c.op, ErrIndex)], NoLoc)
       ELSE /\ ret' = [ret EXCEPT ![p] = NoRet]
            /\ pc' = [pc EXCEPT ![p] = "set_lock"]
            /\ loc' = [loc EXCEPT ![p] = [NoLoc EXCEPT !.tgt = index]]

SetCall(p) ==
    /\ Ready(p)
    /\ \E index \in 0..capacity, a \in InputPositions :
          EnterSet(p, [NoCall EXCEPT !.op = "Set", !.index = index, !.arg = a], index)
    /\ UNCHANGED <<capacity, posVars, memberVars, chanVars>>

SetPositionCall(p) ==
    /\ Ready(p)
    /\ \E index \in 0..capacity, a \in InputPositions :
          EnterSet(p, [NoCall EXCEPT !.op = "SetPosition", !.index = index, !.arg = a],
                   index)
    /\ UNCHANGED <<capacity, posVars, memberVars, chanVars>>

\* SetAddr and SetPositionAddr: resolve, then Set.
EnterSetByAddr(p, c) ==
    LET r == GetS(c.addr)
    IN  IF ~r.ok
        THEN /\ call' = [call EXCEPT ![p] = c]
             /\ Finish(p, [NoRet EXCEPT !.err = ErrAddr], NoLoc)
        ELSE EnterSet(p, c, r.id)

SetAddrCall(p) ==
    /\ Ready(p)
    /\ \E hardAddr \in HardAddrs, a \in InputPositions :
          EnterSetByAddr(p, [NoCall EXCEPT !.op = "SetAddr", !.addr = hardAddr, !.arg = a])
    /\ UNCHANGED <<capacity, posVars, memberVars, chanVars>>

SetPositionAddrCall(p) ==
    /\ Ready(p)
    /\ \E hardAddr \in HardAddrs, a \in InputPositions :
          EnterSetByAddr(p, [NoCall EXCEPT !.op = "SetPositionAddr", !.addr = hardAddr,
                                          !.arg = a])
    /\ UNCHANGED <<capacity, posVars, memberVars, chanVars>>

\* p.mu[index].Lock()
SetLock(p) ==
    /\ pc[p] = "set_lock"
    /\ CanLock(mu[loc[p].tgt])
    /\ mu' = [mu EXCEPT ![loc[p].tgt].writer = TRUE]
    /\ pc' = [pc EXCEPT ![p] = "set_body"]
    /\ UNCHANGED <<capacity, pos, written, memberVars, chanVars, call, loc, ret>>

\* The body of Set under the write lock, and the deferred Unlock, as one
\* step: the check of the flag and the three assignments together.
SetBody(p) ==
    /\ pc[p] = "set_body"
    /\ LET i == loc[p].tgt
           a == call[p].arg
       IN  /\ mu' = [mu EXCEPT ![i].writer = FALSE]
           /\ IF ~isEnabled[i]
              THEN /\ Finish(p, [NoRet EXCEPT !.err = SetReturn(call[p].op, ErrDisabled)], NoLoc)
                   /\ UNCHANGED <<pos, written>>
              ELSE /\ pos' = [pos EXCEPT ![i] = SetStore(@, a.X, a.Y, a.Height)]
                   /\ written' = [written EXCEPT ![i] = [set |-> TRUE, pos |-> a]]
                   /\ Finish(p, [NoRet EXCEPT !.err = SetReturn(call[p].op, Nil)], NoLoc)
    /\ UNCHANGED <<capacity, memberVars, chanVars, call>>

\* Set statement by statement, for what another goroutine can see or do
\* between the statements of the body: the check of the flag ...
SetCheck(p) ==
    /\ pc[p] = "set_body"
    /\ IF ~isEnabled[loc[p].tgt]
       THEN /\ mu' = [mu EXCEPT ![loc[p].tgt].writer = FALSE]
            /\ Finish(p, [NoRet EXCEPT !.err = SetReturn(call[p].op, ErrDisabled)], NoLoc)
       ELSE /\ pc' = [pc EXCEPT ![p] = "set_x"]
            /\ UNCHANGED <<mu, loc, ret>>
    /\ UNCHANGED <<capacity, pos, written, memberVars, chanVars, call>>

\* ... p.pos[index].X = x ...
SetX(p) ==
    /\ pc[p] = "set_x"
    /\ pos' = [pos EXCEPT ![loc[p].tgt] =
                  SetStore(@, call[p].arg.X, @.Y, @.Height)]
    /\ pc' = [pc EXCEPT ![p] = "set_y"]
    /\ UNCHANGED <<capacity, mu, written, memberVars, chanVars, call, loc, ret>>

\* ... p.pos[index].Y = y ...
SetY(p) ==
    /\ pc[p] = "set_y"
    /\ pos' = [pos EXCEPT ![loc[p].tgt] =
                  SetStore(@, @.X, call[p].arg.Y, @.Height)]
    /\ pc' = [pc EXCEPT ![p] = "set_h"]
    /\ UNCHANGED <<capacity, mu, written, memberVars, chanVars, call, loc, ret>>

\* ... p.pos[index].Height = height, the deferred Unlock and the return.
SetHeight(p) ==
    /\ pc[p] = "set_h"
    /\ pos' = [pos EXCEPT ![loc[p].tgt] =
                  SetStore(@, @.X, @.Y, call[p].arg.Height)]
    /\ written' = [written EXCEPT ![loc[p].tgt] = [set |-> TRUE, pos |-> call[p].arg]]
    /\ mu' = [mu EXCEPT ![loc[p].tgt].writer = FALSE]
    /\ Finish(p, [NoRet EXCEPT !.err = SetReturn(call[p].op, Nil)], NoLoc)
    /\ UNCHANGED <<capacity, memberVars, chanVars, call>>

\* ------------------------------------------------------- membership
RECURSIVE CalcLoop(_, _, _)
CalcLoop(flags, i, e) ==
    IF i >= Cardinality(DOMAIN flags)
    THEN e
    ELSE CalcLoop(flags, i + 1, IF flags[i] THEN Append(e, i) ELSE e)

RECURSIVE CalcLoopDown(_, _, _)
CalcLoopDown(flags, i, e) ==
    IF i < 0
    THEN e
    ELSE CalcLoopDown(flags, i - 1, IF flags[i] THEN Append(e, i) ELSE e)

\* calculateEnabled() walking the flags from the last index down.
CalculateEnabledDown(flags) == CalcLoopDown(flags, Cardinality(DOMAIN flags) - 1, <<>>)

\* calculateEnabled(): the indices whose flag is set, in the order of the range loop.
CalculateEnabled(flags) == CalcLoop(flags, 0, <<>>)

Registered == {enabledChanged[k] : k \in 1..Len(enabledChanged)}

\* Membership calls that have not yet updated the flag.
Pending == Cardinality({q \in Callers : pc[q] \in {"mem_lock", "mem_body"}})

\* Keeps the histories finite: a caller starts a membership call only while
\* every subscriber has room for its list.
ListRoom == \A c \in Registered : Len(callsSince[c]) + Pending < MaxLists

\* The indices membership calls are made with: every slot and one index out
\* of range; of the NotifyCapacity slots of the notification registry, two.
MemberIndices == IF capacity = NotifyCapacity THEN {1, 3, capacity} ELSE 0..capacity

MemberCall(p, op) ==
    /\ Ready(p)
    /\ ListRoom
    /\ \E index \in MemberIndices :
          Begin(p, [NoCall EXCEPT !.op = op, !.index = index], "mem_lock")
    /\ loc' = [loc EXCEPT ![p] = NoLoc]
    /\ UNCHANGED <<capacity, posVars, memberVars, chanVars>>

EnableCall(p) == MemberCall(p, "Enable")

DisableCall(p) == MemberCall(p, "Disable")

\* p.muEnabled.Lock() of Enable and Disable
MemberLock(p) ==
    /\ pc[p] = "mem_lock"
    /\ CanLock(muEnabled)
    /\ muEnabled' = [muEnabled EXCEPT !.writer = TRUE]
    /\ pc' = [pc EXCEPT ![p] = "mem_body"]
    /\ UNCHANGED <<capacity, posVars, isEnabled, enabledChanged, flagHist, chanVars,
                   call, loc, ret>>

\* A Disable that also resets the stored position.
PosAfterMemberCleared(table, op, i) ==
    IF op = "Disable" THEN [table EXCEPT ![i] = ZeroPos] ELSE table

\* Enable and Disable assign the flag and nothing of p.pos.
PosAfterMember(table, op, i) == table

\* An Unlock placed before the fan-out instead of deferred to the return.
LockAfterUpdateReleased(m) == [m EXCEPT !.writer = FALSE]

\* defer p.muEnabled.Unlock(): the lock stays held through the fan-out.
LockAfterUpdate(m) == m

\* The value Enable / Disable stores in the flag.
FlagValue(op) == op = "Enable"

\* A fan-out that is skipped when the assignment did not change the flag.
FanOutStartIfChanged(old, new) == IF old = new THEN Len(enabledChanged) + 1 ELSE 1

\* notifyEnabledChanged() is called after the assignment whatever the flag
\* was before: the range loop starts at the first subscriber.
FanOutStart(old, new) == 1

NextHist(h, op) == IF op = "Disable" THEN "cycled" ELSE IF h = "fresh" THEN "on" ELSE h

\* p.isEnabled[index] = true / false under the membership lock. An index out
\* of range panics: the deferred Unlock runs and nothing is sent.
MemberBody(p) ==
    /\ pc[p] = "mem_body"
    /\ LET i == call[p].index
       IN  IF IndexOutOfRange(i, capacity)
           THEN /\ muEnabled' = [muEnabled EXCEPT !.writer = FALSE]
                /\ Finish(p, [NoRet EXCEPT !.err = Panic], NoLoc)
                /\ UNCHANGED <<pos, isEnabled, flagHist, callsSince>>
           ELSE /\ isEnabled' = [isEnabled EXCEPT ![i] = FlagValue(call[p].op)]
                /\ pos' = PosAfterMember(pos, call[p].op, i)
                /\ flagHist' = [j \in DOMAIN flagHist |->
                      IF j = i THEN NextHist(flagHist[j], call[p].op) ELSE flagHist[j]]
                /\ callsSince' = [c \in Chans |->
                      IF c \in Registered
                      THEN Append(callsSince[c], [op |-> call[p].op, index |-> i])
                      ELSE callsSince[c]]
                /\ loc' = [loc EXCEPT ![p].k = FanOutStart(isEnabled[i], FlagValue(call[p].op))]
                /\ pc' = [pc EXCEPT ![p] = "notify"]
                /\ muEnabled' = LockAfterUpdate(muEnabled)
                /\ ret' = ret
    /\ UNCHANGED <<capacity, mu, written, enabledChanged, chanCap, chanBuf, received,
                   regFlags, call>>

\* A send that never waits for room.
HasRoomAlways(buf, cap) == TRUE

\* A send on a buffered channel completes once the buffer has a free place.
HasRoom(buf, cap) == Len(buf) < cap

\* notifyEnabledChanged: c <- p.calculateEnabled() into a channel with room.
NotifySend(p) ==
    /\ pc[p] = "notify"
    /\ loc[p].k <= Len(enabledChanged)
    /\ LET c == enabledChanged[loc[p].k]
       IN  /\ HasRoom(chanBuf[c], chanCap[c])
           /\ chanBuf' = [chanBuf EXCEPT ![c] = Append(@, CalculateEnabled(isEnabled))]
    /\ loc' = [loc EXCEPT ![p].k = @ + 1]
    /\ UNCHANGED <<capacity, posVars, memberVars, chanCap, received, regFlags,
                   callsSince, pc, call, ret>>

\* notifyEnabledChanged: c <- p.calculateEnabled() on an unbuffered channel
\* completes together with the subscriber's receive.
NotifyHandoff(p) ==
    /\ pc[p] = "notify"
    /\ loc[p].k <= Len(enabledChanged)
    /\ LET c == enabledChanged[loc[p].k]
       IN  /\ chanCap[c] = 0
           /\ received' = [received EXCEPT ![c] = Append(@, CalculateEnabled(isEnabled))]
    /\ loc' = [loc EXCEPT ![p].k = @ + 1]
    /\ UNCHANGED <<capacity, posVars, memberVars, chanCap, chanBuf, regFlags,
                   callsSince, pc, call, ret>>

\* A return that leaves the membership lock locked.
LockAfterFanOutKept(m) == m

\* The deferred p.muEnabled.Unlock() of Enable / Disable.
LockAfterFanOut(m) == [m EXCEPT !.writer = FALSE]

\* The end of the range loop of notifyEnabledChanged, the deferred Unlock
\* and the return of Enable / Disable.
NotifyDone(p) ==
    /\ pc[p] = "notify"
    /\ loc[p].k > Len(enabledChanged)
    /\ muEnabled' = LockAfterFanOut(muEnabled)
    /\ Finish(p, NoRet, NoLoc)
    /\ UNCHANGED <<capacity, posVars, isEnabled, enabledChanged, flagHist, chanVars,
                   call>>

\* A subscriber takes the oldest list out of its channel.
Recv(c) ==
    /\ chanBuf[c] # <<>>
    /\ received' = [received EXCEPT ![c] = Append(@, Head(chanBuf[c]))]
    /\ chanBuf' = [chanBuf EXCEPT ![c] = Tail(@)]
    /\ UNCHANGED <<capacity, posVars, memberVars, chanCap, regFlags, callsSince,
                   pc, call, loc, ret>>

\* A registration that hands the new sink the current enabled list.
ReceivedAfterRegisterSnapshot(rcv, c, flags) ==
    [rcv EXCEPT ![c] = Append(@, CalculateEnabled(flags))]

\* RegisterEnabledChanged appends the channel and sends nothing on it.
ReceivedAfterRegister(rcv, c, flags) == rcv

\* RegisterEnabledChanged(channel); each sink is registered once.
RegisterCall(p) ==
    /\ Ready(p)
    /\ \E c \in Chans :
          /\ c \notin Registered
          /\ \A q \in Callers : ~(pc[q] = "reg_lock" /\ call[q].ch = c)
          /\ Begin(p, [NoCall EXCEPT !.op = "RegisterEnabledChanged", !.ch = c],
                   "reg_lock")
    /\ loc' = [loc EXCEPT ![p] = NoLoc]
    /\ UNCHANGED <<capacity, posVars, memberVars, chanVars>>

RegisterBody(p) ==
    /\ pc[p] = "reg_lock"
    /\ CanLock(muEnabled)
    /\ enabledChanged' = Append(enabledChanged, call[p].ch)
    /\ regFlags' = [regFlags EXCEPT ![call[p].ch] = {i \in Slots : isEnabled[i]}]
    /\ callsSince' = [callsSince EXCEPT ![call[p].ch] = <<>>]
    /\ received' = ReceivedAfterRegister(received, call[p].ch, isEnabled)
    /\ Finish(p, NoRet, NoLoc)
    /\ UNCHANGED <<capacity, posVars, isEnabled, muEnabled, flagHist, chanCap,
                   chanBuf, call>>

\* IsEnabled(index)
IsEnabledCall(p) ==
    /\ Ready(p)
    /\ \E index \in MemberIndices :
          Begin(p, [NoCall EXCEPT !.op = "IsEnabled", !.index = index], "isen_rlock")
    /\ loc' = [loc EXCEPT ![p] = NoLoc]
    /\ UNCHANGED <<capacity, posVars, memberVars, chanVars>>

IsEnabledBody(p) ==
    /\ pc[p] = "isen_rlock"
    /\ CanRLock(muEnabled)
    /\ IF IndexOutOfRange(call[p].index, capacity)
       THEN Finish(p, [NoRet EXCEPT !.err = Panic], NoLoc)
       ELSE Finish(p, [NoRet EXCEPT !.flag = isEnabled[call[p].index]], NoLoc)
    /\ UNCHANGED <<capacity, posVars, memberVars, chanVars, call>>

\* Enabled()
EnabledCall(p) ==
    /\ Ready(p)
    /\ Begin(p, [NoCall EXCEPT !.op = "Enabled"], "en_rlock")
    /\ loc' = [loc EXCEPT ![p] = NoLoc]
    /\ UNCHANGED <<capacity, posVars, memberVars, chanVars>>

EnabledBody(p) ==
    /\ pc[p] = "en_rlock"
    /\ CanRLock(muEnabled)
    /\ Finish(p, [NoRet EXCEPT !.list = CalculateEnabled(isEnabled)], NoLoc)
    /\ UNCHANGED <<capacity, posVars, memberVars, chanVars, call>>

\* ------------------------------------------- the resolver-less registry
\* Distance and Set of squirrel-master/positionManager.go: no range check,
\* no flag check, and Distance holds the read locks of both slots at once.

\* A caller has called Lock() on slot i and waits for it.
WriterWaiting(i) == \E q \in Callers : pc[q] = "oset_lock" /\ loc[q].tgt = i

\* sync.RWMutex.RLock(): blocks while a writer holds the lock or waits for it.
CanRLockBehindWriters(i) == ~mu[i].writer /\ ~WriterWaiting(i)

OldDistanceCall(p) ==
    /\ Ready(p)
    /\ \E index1 \in Slots, index2 \in Slots :
          /\ Begin(p, [NoCall EXCEPT !.op = "Distance", !.index = index1,
                                     !.index2 = index2], "odist_rlock1")
          /\ loc' = [loc EXCEPT ![p] = [NoLoc EXCEPT !.tgt = index1]]
    /\ UNCHANGED <<capacity, posVars, memberVars, chanVars>>

\* p.mu[index1].RLock()
OldDistanceRLock1(p) ==
    /\ pc[p] = "odist_rlock1"
    /\ CanRLockBehindWriters(call[p].index)
    /\ mu' = [mu EXCEPT ![call[p].index].readers = @ + 1]
    /\ pc' = [pc EXCEPT ![p] = "odist_rlock2"]
    /\ loc' = [loc EXCEPT ![p].tgt = call[p].index2]
    /\ UNCHANGED <<capacity, pos, written, memberVars, chanVars, call, ret>>

\* p.mu[index2].RLock(), the read lock of index1 still held
OldDistanceRLock2(p) ==
    /\ pc[p] = "odist_rlock2"
    /\ CanRLockBehindWriters(call[p].index2)
    /\ mu' = [mu EXCEPT ![call[p].index2].readers = @ + 1]
    /\ pc' = [pc EXCEPT ![p] = "odist_body"]
    /\ UNCHANGED <<capacity, pos, written, memberVars, chanVars, call, loc, ret>>

\* The distance, and the two deferred RUnlocks.
OldDistanceBody(p) ==
    /\ pc[p] = "odist_body"
    /\ LET i == call[p].index
           j == call[p].index2
       IN  /\ mu' = [k \in DOMAIN mu |->
                      [mu[k] EXCEPT !.readers = @ - (IF k = i THEN 1 ELSE 0)
                                               - (IF k = j THEN 1 ELSE 0)]]
           /\ Finish(p, [NoRet EXCEPT !.dist = DistanceValue(pos[i], Nil, pos[j], Nil)],
                      NoLoc)
    /\ UNCHANGED <<capacity, pos, written, memberVars, chanVars, call>>

\* Set(index, x, y, height) up to its p.mu[index].Lock()
OldSetCall(p) ==
    /\ Ready(p)
    /\ \E index \in Slots, a \in InputPositions :
          /\ Begin(p, [NoCall EXCEPT !.op = "Set", !.index = index, !.arg = a],
                   "oset_lock")
          /\ loc' = [loc EXCEPT ![p] = [NoLoc EXCEPT !.tgt = index]]
    /\ UNCHANGED <<capacity, posVars, memberVars, chanVars>>

OldSetLock(p) ==
    /\ pc[p] = "oset_lock"
    /\ CanLock(mu[loc[p].tgt])
    /\ mu' = [mu EXCEPT ![loc[p].tgt].writer = TRUE]
    /\ pc' = [pc EXCEPT ![p] = "oset_body"]
    /\ UNCHANGED <<capacity, pos, written, memberVars, chanVars, call, loc, ret>>

OldSetBody(p) ==
    /\ pc[p] = "oset_body"
    /\ LET i == loc[p].tgt
           a == call[p].arg
       IN  /\ pos' = [pos EXCEPT ![i] = SetStore(@, a.X, a.Y, a.Height)]
           /\ written' = [written EXCEPT ![i] = [set |-> TRUE, pos |-> a]]
           /\ mu' = [mu EXCEPT ![i].writer = FALSE]
    /\ Finish(p, NoRet, NoLoc)
    /\ UNCHANGED <<capacity, memberVars, chanVars, call>>

\* ------------------------------------------------------ specifications
\* Steps every call shares.
PositionSteps(p) ==
    \/ GetRLock(p)
    \/ GetBody(p)
    \/ SetLock(p)
    \/ SetBody(p)

MemberSteps(p) ==
    \/ EnableCall(p)
    \/ DisableCall(p)
    \/ MemberLock(p)
    \/ MemberBody(p)
    \/ NotifyDone(p)
    \/ Return(p)

\* Index-based position reads and writes against membership changes.
Next ==
    \E p \in Callers :
        \/ GetCall(p)
        \/ SetCall(p)
        \/ SetPositionCall(p)
        \/ PositionSteps(p)
        \/ MemberSteps(p)

Spec == Init /\ [][Next]_vars

\* Distance against position writes and membership changes.
NextDistance ==
    \E p \in Callers :
        \/ DistanceCall(p)
        \/ SetCall(p)
        \/ PositionSteps(p)
        \/ MemberSteps(p)

SpecDistance == Init /\ [][NextDistance]_vars

\* Address-based reads and writes.
\* Every operation on a registry of one slot.
InitFrame ==
    /\ NewPositionManager(1)
    /\ chanCap = [c \in Chans |-> 0]
    /\ flagHist = [i \in Slots |-> "fresh"]
    /\ InitRest

NextFrame ==
    \E p \in Callers :
        \/ GetCall(p)
        \/ SetCall(p)
        \/ SetPositionCall(p)
        \/ DistanceCall(p)
        \/ RegisterCall(p)
        \/ RegisterBody(p)
        \/ NotifyHandoff(p)
        \/ PositionSteps(p)
        \/ MemberSteps(p)

SpecFrame == InitFrame /\ [][NextFrame]_vars

NextAddr ==
    \E p \in Callers :
        \/ GetAddrCall(p)
        \/ SetAddrCall(p)
        \/ SetPositionAddrCall(p)
        \/ PositionSteps(p)
        \/ MemberSteps(p)

SpecAddr == Init /\ [][NextAddr]_vars

\* Reads and writes of a slot, Set taken statement by statement, against
\* membership changes.
NextSteps ==
    \E p \in Callers :
        \/ GetCall(p)
        \/ SetCall(p)
        \/ GetRLock(p)
        \/ GetBody(p)
        \/ SetLock(p)
        \/ SetCheck(p)
        \/ SetX(p)
        \/ SetY(p)
        \/ SetHeight(p)
        \/ MemberSteps(p)

SpecSteps == Init /\ [][NextSteps]_vars

\* Every index-based operation on a registry of one slot whose subscribers
\* have buffered channels and never receive.
InitStall ==
    /\ NewPositionManager(1)
    /\ chanCap = [c \in Chans |-> MaxChanCap]
    /\ flagHist = [i \in Slots |-> "fresh"]
    /\ InitRest

NextStall ==
    \E p \in Callers :
        \/ GetCall(p)
        \/ SetCall(p)
        \/ DistanceCall(p)
        \/ RegisterCall(p)
        \/ RegisterBody(p)
        \/ NotifySend(p)
        \/ PositionSteps(p)
        \/ MemberSteps(p)

SpecStall == InitStall /\ [][NextStall]_vars

\* Distance and Set of the resolver-less registry.
NextOld ==
    \E p \in Callers :
        \/ OldDistanceCall(p)
        \/ OldDistanceRLock1(p)
        \/ OldDistanceRLock2(p)
        \/ OldDistanceBody(p)
        \/ OldSetCall(p)
        \/ OldSetLock(p)
        \/ OldSetBody(p)
        \/ Return(p)

SpecOld == Init /\ [][NextOld]_vars

\* Membership changes and their notification of subscribers.

InitNotify ==
    /\ NewPositionManager(NotifyCapacity)
    /\ chanCap = [c \in Chans |-> IF c = 1 THEN 0 ELSE MaxChanCap]
    /\ flagHist = <<>>
    /\ InitRest

NextNotify ==
    \/ \E p \in Callers :
        \/ MemberSteps(p)
        \/ NotifySend(p)
        \/ NotifyHandoff(p)
        \/ RegisterCall(p)
        \/ RegisterBody(p)
        \/ EnabledCall(p)
        \/ EnabledBody(p)
    \/ \E c \in Chans : Recv(c)

SpecNotify == InitNotify /\ [][NextNotify]_vars

\* Every operation that takes the membership lock, and the subscribers.
NextGuard ==
    \/ \E p \in Callers :
        \/ MemberSteps(p)
        \/ NotifySend(p)
        \/ NotifyHandoff(p)
        \/ RegisterCall(p)
        \/ RegisterBody(p)
        \/ EnabledCall(p)
        \/ EnabledBody(p)
        \/ IsEnabledCall(p)
        \/ IsEnabledBody(p)
    \/ \E c \in Chans : Recv(c)

SpecGuard == InitNotify /\ [][NextGuard]_vars

\* The same operations on a registry of one slot, with the scheduling the
\* runtime gives: a goroutine that can run does run, a subscriber keeps
\* receiving, and a goroutine waiting for the membership lock gets it
\* (sync.RWMutex hands the lock to waiters; it does not starve them).
InitLive ==
    /\ NewPositionManager(1)
    /\ chanCap = [c \in Chans |-> IF c = 1 THEN 0 ELSE MaxChanCap]
    /\ flagHist = <<>>
    /\ InitRest

\* The steps of caller p that wait for nothing but the scheduler or a
\* subscriber, and those that wait for the membership lock.
RunSteps(p) == MemberBody(p) \/ NotifySend(p) \/ NotifyHandoff(p) \/ NotifyDone(p)

LockSteps(p) == MemberLock(p) \/ RegisterBody(p) \/ IsEnabledBody(p) \/ EnabledBody(p)

Fairness ==
    /\ \A p \in Callers : WF_vars(RunSteps(p)) /\ SF_vars(LockSteps(p))
    /\ \A c \in Chans : WF_vars(Recv(c))

SpecLive == InitLive /\ [][NextGuard]_vars /\ Fairness

\* ============================================================ claims
\* The step in which caller p's Get(index) reads the slot and returns.
GetReturns(p) == pc[p] = "get_body" /\ pc'[p] = "done" /\ call[p].op = "Get"

\* C1: on a fresh registry Get(i) of a valid index fails with the
\* node-disabled error; once Enable(i) has taken effect, with no Disable(i)
\* and no Set on i since construction, Get(i) succeeds and returns (0,0,0).
C1_FreshDisabledThenZero ==
    [][\A p \in Callers : GetReturns(p) =>
          LET i == call[p].index
          IN  /\ flagHist[i] = "fresh" => ret'[p].err = ErrDisabled
              /\ (flagHist[i] = "on" /\ ~written[i].set)
                    => (ret'[p].err = Nil /\ ret'[p].pos = ZeroPos)]_vars

C1_Witness ==
    \E p \in Callers :
        /\ pc[p] = "done" /\ call[p].op = "Get" /\ call[p].index \in Slots
        /\ flagHist[call[p].index] = "on" /\ ~written[call[p].index].set
        /\ ret[p].err = Nil /\ ret[p].pos = ZeroPos

\* C2: a Get(i) that reads slot i while it is enabled, after a successful
\* Set(i, x, y, h), returns exactly the (x, y, h) of the last successful Set
\* on i, whatever happened on other indices.
C2_RoundTrip ==
    [][\A p \in Callers : GetReturns(p) =>
          LET i == call[p].index
          IN  (written[i].set /\ isEnabled[i])
                 => (ret'[p].err = Nil /\ ret'[p].pos = written[i].pos)]_vars

C2_Witness ==
    \E p \in Callers :
        /\ pc[p] = "done" /\ call[p].op = "Get" /\ call[p].index \in Slots
        /\ written[call[p].index].set
        /\ ret[p].err = Nil /\ ret[p].pos = written[call[p].index].pos
        /\ \E j \in Slots : j # call[p].index /\ written[j].set
                              /\ written[j].pos # ret[p].pos

\* C3: Get(i) and Set(i, ...) with i >= capacity return the
\* index-out-of-range error in their first step, take no lock and change
\* no position, no flag and no subscriber.
C3_OutOfRange ==
    [][\A p \in Callers :
          (pc[p] = "idle" /\ pc'[p] # "idle" /\ call'[p].op \in {"Get", "Set"}
             /\ call'[p].index >= capacity)
          => /\ pc'[p] = "done"
             /\ ret'[p].err = ErrIndex
             /\ UNCHANGED <<pos, mu, isEnabled, enabledChanged, muEnabled>>]_vars

C3_Witness ==
    \E p, q \in Callers :
        /\ pc[p] = "done" /\ call[p].op = "Set" /\ call[p].index >= capacity
        /\ ret[p].err = ErrIndex
        /\ pc[q] = "done" /\ call[q].op = "Get" /\ call[q].index >= capacity
        /\ ret[q].err = ErrIndex
        /\ \E i \in Slots : written[i].set

\* C4: Get(i), Set(i, ...) and SetPosition(i, pos) on a valid index that
\* has never been enabled return a non-nil error.
C4_DisabledRejected ==
    \A p \in Callers :
        (pc[p] = "done" /\ call[p].op \in {"Get", "Set", "SetPosition"}
           /\ call[p].index \in Slots /\ flagHist[call[p].index] = "fresh")
        => ret[p].err # Nil

\* The error the index-based operation behind an address-based one returns
\* for index k, where the history decides it.
IndexOpError(op, k) ==
    IF op = "SetPositionAddr" THEN Nil
    ELSE IF k >= capacity THEN ErrIndex
    ELSE IF flagHist[k] = "fresh" THEN ErrDisabled
    ELSE Nil

\* C5: GetAddr, SetAddr and SetPositionAddr return the address-not-found
\* error for an unknown address and otherwise the error of Get(k), Set(k, ...)
\* or SetPosition(k, ...) for the resolved index k.
C5_AddrForwardsError ==
    \A p \in Callers :
        (pc[p] = "done" /\ call[p].op \in {"GetAddr", "SetAddr", "SetPositionAddr"})
        => LET r == GetS(call[p].addr)
           IN  /\ ~r.ok => ret[p].err = ErrAddr
               /\ (r.ok /\ (r.id >= capacity \/ flagHist[r.id] = "fresh"))
                     => ret[p].err = IndexOpError(call[p].op, r.id)

\* The operation whose step caller p takes.
StepOp(p) == IF pc[p] = "idle" THEN call'[p].op ELSE call[p].op

\* C6: Enable, Disable and RegisterEnabledChanged change no stored position;
\* Get, Set, SetPosition and Distance change no flag and no subscriber; so a
\* slot always stores the arguments of the last successful Set on it, through
\* any Disable and Enable.
C6_FrameAndPersistence ==
    [][/\ \A p \in Callers : pc'[p] # pc[p] /\ pc[p] # "done" =>
              /\ StepOp(p) \in {"Enable", "Disable", "RegisterEnabledChanged"}
                    => pos' = pos
              /\ StepOp(p) \in {"Get", "Set", "SetPosition", "Distance"}
                    => (isEnabled' = isEnabled /\ enabledChanged' = enabledChanged)
       /\ \A i \in Slots : pos'[i] = written'[i].pos]_vars

C6_Witness ==
    /\ enabledChanged # <<>>
    /\ \E i \in Slots : /\ ~isEnabled[i] /\ written[i].set
                         /\ pos[i] = written[i].pos /\ pos[i] # ZeroPos
    /\ \E p \in Callers : pc[p] = "done" /\ call[p].op = "Distance"

\* A read of index i by a finished call cannot have succeeded.
NeverReadable(i) == i >= capacity \/ flagHist[i] = "fresh"

\* C7: Distance returns no error; when one of its two reads failed (index
\* out of range, or node disabled when read) it returns MaxFloat64.
C7_DistanceSentinel ==
    \A p \in Callers :
        (pc[p] = "done" /\ call[p].op = "Distance")
        => /\ ret[p].err = Nil
           /\ (loc[p].err1 # Nil \/ loc[p].err2 # Nil) => ret[p].dist = MaxFloat64
           /\ (NeverReadable(call[p].index) \/ NeverReadable(call[p].index2))
                 => ret[p].dist = MaxFloat64
           /\ ret[p].dist # MaxFloat64 => (loc[p].err1 = Nil /\ loc[p].err2 = Nil)

C7_Witness ==
    \E p, q \in Callers :
        /\ pc[p] = "done" /\ call[p].op = "Distance"
        /\ loc[p].err1 = Nil /\ loc[p].err2 = ErrDisabled /\ ret[p].dist = MaxFloat64
        /\ pc[q] = "done" /\ call[q].op = "Distance"
        /\ ret[q].dist # MaxFloat64 /\ ret[q].dist > 0

\* C8: Distance(i, i) on an index that stays enabled during the call is 0.
C8_DistanceToSelfZero ==
    \A p \in Callers :
        (pc[p] = "done" /\ call[p].op = "Distance"
           /\ call[p].index = call[p].index2 /\ call[p].index \in Slots
           /\ loc[p].on0 /\ flagHist[call[p].index] = "on")
        => ret[p].dist = 0

\* ---- history of the notifications
\* What channel c has been sent so far, oldest first.
Delivered(c) == received[c] \o chanBuf[c]

\* The enabled set after the first k membership calls since c was registered.
RECURSIVE FlagsAfter(_, _)
FlagsAfter(c, k) ==
    IF k = 0 THEN regFlags[c]
    ELSE IF callsSince[c][k].op = "Enable"
         THEN FlagsAfter(c, k - 1) \cup {callsSince[c][k].index}
         ELSE FlagsAfter(c, k - 1) \ {callsSince[c][k].index}

\* l lists exactly the members of S, strictly ascending.
IsAscendingListOf(l, S) ==
    /\ {l[n] : n \in 1..Len(l)} = S
    /\ \A n \in 1..(Len(l) - 1) : l[n] < l[n + 1]

\* The position of channel c in p.enabledChanged.
SubIndex(c) == CHOOSE k \in 1..Len(enabledChanged) : enabledChanged[k] = c

Notifying == {p \in Callers : pc[p] = "notify"}

\* The lists of C9: every list sent to a subscriber is
\* strictly ascending and holds exactly the indices enabled right after the
\* flag update of its call; the subscribers served by one call got the same
\* list; Enable(3) then Enable(1) on a registry with nothing enabled delivers
\* [3] and then [1,3].
C9_ListsNow ==
    /\ \A c \in Registered : \A k \in 1..Len(Delivered(c)) :
          k <= Len(callsSince[c]) /\ IsAscendingListOf(Delivered(c)[k], FlagsAfter(c, k))
    /\ \A p \in Notifying : \A j \in 1..(loc[p].k - 1) :
          /\ Delivered(enabledChanged[j]) # <<>>
          /\ Delivered(enabledChanged[j])[Len(Delivered(enabledChanged[j]))]
                = Delivered(enabledChanged[1])[Len(Delivered(enabledChanged[1]))]
          /\ IsAscendingListOf(Delivered(enabledChanged[1])[Len(Delivered(enabledChanged[1]))],
                               {i \in Slots : isEnabled[i]})
    /\ \A c \in Registered :
          (/\ regFlags[c] = {}
           /\ callsSince[c] = <<[op |-> "Enable", index |-> 3], [op |-> "Enable", index |-> 1]>>
           /\ Notifying = {})
          => Delivered(c) = << <<3>>, <<1, 3>> >>

\* C9, over every step: the lists sent so far are as stated above, and the
\* list Enabled() returns is the ascending list of the flags it reads.
C9_Lists ==
    [][/\ C9_ListsNow'
       /\ \A p \in Callers : (pc[p] = "en_rlock" /\ pc'[p] = "done")
             => IsAscendingListOf(ret'[p].list, {i \in Slots : isEnabled[i]})]_vars

C9_Witness ==
    /\ Registered = Chans
    /\ Notifying = {}
    /\ \A c \in Chans :
          /\ regFlags[c] = {}
          /\ callsSince[c] = <<[op |-> "Enable", index |-> 3], [op |-> "Enable", index |-> 1]>>
          /\ Delivered(c) = << <<3>>, <<1, 3>> >>
    /\ \E p \in Callers : pc[p] = "done" /\ call[p].op = "Enabled"
                           /\ ret[p].list = <<1, 3>>

\* C10: membership calls take effect one at a time, in the order of their
\* flag updates; each subscriber is sent exactly one list per call applied
\* since its registration, in that order, the list of call k being the
\* enabled set after call k; the fan-outs of two calls never overlap.
C10_OrderedDelivery ==
    /\ Cardinality({p \in Callers : pc[p] \in {"mem_body", "notify"}}) <= 1
    /\ \A c \in Registered :
          /\ Len(Delivered(c)) = Len(callsSince[c])
                - Cardinality({p \in Notifying : loc[p].k <= SubIndex(c)})
          /\ \A k \in 1..Len(Delivered(c)) :
                k <= Len(callsSince[c])
                /\ Delivered(c)[k] = CalculateEnabled([i \in Slots |-> i \in FlagsAfter(c, k)])
    /\ \A c, d \in Registered :
          SubIndex(c) < SubIndex(d) =>
             LET off == Len(callsSince[c]) - Len(callsSince[d])
             IN  /\ off >= 0
                 /\ \A k \in 1..Len(Delivered(d)) :
                       /\ k + off <= Len(Delivered(c))
                       /\ Delivered(d)[k] = Delivered(c)[k + off]

C10_Witness ==
    /\ Len(enabledChanged) = 2
    /\ Notifying = {}
    /\ Len(received[enabledChanged[1]]) = 2
    /\ Len(Delivered(enabledChanged[2])) = 1
    /\ Delivered(enabledChanged[2])[1] = received[enabledChanged[1]][2]
    /\ received[enabledChanged[1]][1] # received[enabledChanged[1]][2]

\* The list of the enabled set S, as calculateEnabled builds it.
ListOf(S) == CalculateEnabled([i \in Slots |-> i \in S])

\* The step in which caller p's Enable / Disable returns after its fan-out.
MemberReturns(p) == pc[p] = "notify" /\ pc'[p] = "done"

\* C11: when an Enable / Disable call on a valid index returns, every
\* registered subscriber has been sent a list for it, also when the call
\* left the flag as it was; the list of such a call is the unchanged
\* enabled set, equal to the list of the call before it.
C11_NotifiedWithoutChange ==
    [][\A p \in Callers : MemberReturns(p) =>
          \A c \in Registered :
              LET n == Len(callsSince[c])
              IN  /\ n >= 1
                  /\ Len(Delivered(c)) = n
                  /\ FlagsAfter(c, n) = FlagsAfter(c, n - 1)
                        => /\ Delivered(c)[n] = ListOf(FlagsAfter(c, n - 1))
                           /\ n >= 2 => Delivered(c)[n] = Delivered(c)[n - 1]]_vars

C11_Witness ==
    /\ Notifying = {}
    /\ \E c \in Registered :
          /\ regFlags[c] = {1}
          /\ callsSince[c] = <<[op |-> "Enable", index |-> 1], [op |-> "Disable", index |-> 3]>>
          /\ Delivered(c) = << <<1>>, <<1>> >>

\* C12: RegisterEnabledChanged sends nothing: the step that registers a
\* sink leaves every channel and every subscriber as it was, a subscriber
\* never holds more lists than membership calls were applied since its
\* registration, and its first list is the enabled set after the first of
\* those calls.
C12_NoBacklog ==
    [][/\ \A p \in Callers : (pc[p] = "reg_lock" /\ pc'[p] = "done") =>
              /\ chanBuf' = chanBuf /\ received' = received
              /\ Delivered(call[p].ch)' = <<>>
       /\ \A c \in Registered' :
              /\ Len(Delivered(c)') <= Len(callsSince'[c])
              /\ Delivered(c)' # <<>> => Delivered(c)'[1] = ListOf(FlagsAfter(c, 1))']_vars

C12_Witness ==
    /\ Len(enabledChanged) = 2
    /\ Notifying = {}
    /\ LET c == enabledChanged[1]
           d == enabledChanged[2]
       IN  /\ Len(Delivered(c)) = 2
           /\ regFlags[d] # regFlags[c]
           /\ Len(callsSince[d]) = 1
           /\ Delivered(d) = <<Delivered(c)[2]>>
           /\ Delivered(c)[1] # <<>>

\* Caller p waits in its fan-out for a subscriber whose channel has no room.
Blocked(p) ==
    /\ pc[p] = "notify"
    /\ loc[p].k <= Len(enabledChanged)
    /\ Len(chanBuf[enabledChanged[loc[p].k]]) >= chanCap[enabledChanged[loc[p].k]]

\* C13: an Enable / Disable call returns only when every registered
\* subscriber has accepted its list; the lists are handed over in
\* registration order, one subscriber per step; while the channel of the
\* next subscriber has no room and that subscriber does not receive, the
\* call stays where it is.
C13_SynchronousDelivery ==
    [][\A p \in Callers :
          /\ MemberReturns(p) =>
                \A c \in Registered :
                    /\ Len(Delivered(c)) = Len(callsSince[c])
                    /\ Delivered(c)[Len(Delivered(c))] = CalculateEnabled(isEnabled)
          /\ (pc[p] = "notify" /\ loc'[p].k # loc[p].k /\ pc'[p] = "notify") =>
                /\ loc'[p].k = loc[p].k + 1
                /\ \A c \in Registered :
                      Delivered(c)' = IF c = enabledChanged[loc[p].k]
                                      THEN Append(Delivered(c), CalculateEnabled(isEnabled))
                                      ELSE Delivered(c)
          /\ (Blocked(p) /\ received'[enabledChanged[loc[p].k]]
                               = received[enabledChanged[loc[p].k]])
                => (pc'[p] = "notify" /\ loc'[p].k = loc[p].k)]_vars

C13_Witness ==
    /\ Len(enabledChanged) = 2
    /\ \E p \in Callers :
          /\ Blocked(p)
          /\ loc[p].k = 2
          /\ chanCap[enabledChanged[2]] > 0
          /\ Len(Delivered(enabledChanged[1])) = Len(callsSince[enabledChanged[1]])
          /\ Len(Delivered(enabledChanged[2])) = Len(callsSince[enabledChanged[2]]) - 1

\* The callers in the middle of the three assignments of Set on slot i.
Writing(i) == {p \in Callers : pc[p] \in {"set_x", "set_y", "set_h"} /\ loc[p].tgt = i}

Whole == {ZeroPos} \cup InputPositions

\* C14: every triple a Get returns is (0,0,0) or the arguments of one Set;
\* at most one Set is between its assignments on a slot, no Get holds the
\* slot meanwhile, and when none is, the slot stores the arguments of one
\* single Set (the last that completed) or (0,0,0).
C14_NoTornPosition ==
    /\ \A p \in Callers :
          (pc[p] = "done" /\ call[p].op = "Get") => ret[p].pos \in Whole
    /\ \A i \in Slots :
          /\ Cardinality(Writing(i)) <= 1
          /\ Writing(i) # {} => (mu[i].writer /\ mu[i].readers = 0)
          /\ Writing(i) = {} => (pos[i] \in Whole /\ pos[i] = written[i].pos)

C14_Witness ==
    \E p, q \in Callers :
        /\ pc[q] = "set_y" /\ pos[loc[q].tgt] \notin Whole
        /\ written[loc[q].tgt].set
        /\ pc[p] = "get_rlock" /\ loc[p].tgt = loc[q].tgt

\* C17: a Set that is at its assignments finds the flag of its slot true.
C17_WritesOnlyEnabled ==
    \A p \in Callers :
        pc[p] \in {"set_x", "set_y", "set_h"} => isEnabled[loc[p].tgt]

\* The slot whose flag caller p reads in its next step, holding only the
\* lock of that slot (Get and Set and the operations built on them).
ReadsFlagOf(p) == IF pc[p] \in {"get_body", "set_body"} THEN {loc[p].tgt} ELSE {}

\* The slot whose flag caller q assigns in its next step, holding the
\* membership lock.
WritesFlagOf(q) ==
    IF pc[q] = "mem_body" /\ call[q].index \in Slots THEN {call[q].index} ELSE {}

\* C15: no read of an enabled flag is concurrent with Enable / Disable
\* writing that flag: whenever a caller is about to assign a flag, no other
\* caller is about to read the same flag.
C15_FlagReadsGuarded ==
    \A p, q \in Callers : ReadsFlagOf(p) \cap WritesFlagOf(q) = {}

\* C16: a Get, Set or Distance waits for nothing but the lock of its slot,
\* whoever holds the membership lock and however long; Enable, Disable and
\* RegisterEnabledChanged wait for nothing but the membership lock and room
\* in a subscriber's channel, whoever holds a slot.
C16_IndependentLocks ==
    \A p \in Callers :
        /\ (pc[p] = "get_rlock" /\ ~mu[loc[p].tgt].writer) => ENABLED GetRLock(p)
        /\ pc[p] = "get_body" => ENABLED GetBody(p)
        /\ (pc[p] = "set_lock" /\ ~mu[loc[p].tgt].writer /\ mu[loc[p].tgt].readers = 0)
              => ENABLED SetLock(p)
        /\ pc[p] = "set_body" => ENABLED SetBody(p)
        /\ (pc[p] = "mem_lock" /\ ~muEnabled.writer /\ muEnabled.readers = 0)
              => ENABLED MemberLock(p)
        /\ pc[p] = "mem_body" => ENABLED MemberBody(p)
        /\ (pc[p] = "reg_lock" /\ ~muEnabled.writer /\ muEnabled.readers = 0)
              => ENABLED RegisterBody(p)
        /\ (pc[p] = "notify" /\ ~Blocked(p)) => ENABLED (NotifySend(p) \/ NotifyDone(p))

C16_Witness ==
    \E p, q \in Callers, c \in Registered :
        /\ Blocked(p) /\ enabledChanged[loc[p].k] = c
        /\ regFlags[c] = {}
        /\ callsSince[c] = <<[op |-> "Disable", index |-> 0], [op |-> "Enable", index |-> 0]>>
        /\ pc[q] = "done" /\ call[q].op = "Distance" /\ ret[q].dist # MaxFloat64
        /\ written[0].set

\* Caller q is inside, or waits at the door of, an operation that takes the
\* membership lock.
AtMembership(q) ==
    pc[q] \in {"mem_lock", "mem_body", "notify", "reg_lock", "isen_rlock", "en_rlock"}

\* C18: from the flag update of an Enable / Disable call to the end of its
\* fan-out, waiting for a subscriber included, the call holds the
\* membership lock for writing: no other caller's IsEnabled, Enabled,
\* RegisterEnabledChanged, Enable or Disable moves on or returns, and the
\* flags and the subscriber list stay as they are.
C18_LockHeldDuringFanOut ==
    [][\A p \in Callers : pc[p] = "notify" =>
          /\ muEnabled.writer /\ muEnabled.readers = 0
          /\ \A q \in Callers \ {p} : AtMembership(q) =>
                (pc'[q] = pc[q] /\ ret'[q] = ret[q])
          /\ isEnabled' = isEnabled
          /\ enabledChanged' = enabledChanged]_vars

C18_Witness ==
    \E p, q \in Callers :
        /\ Blocked(p) /\ loc[p].k = 2 /\ chanCap[enabledChanged[2]] > 0
        /\ pc[q] = "isen_rlock" /\ call[q].index = call[p].index
        /\ call[p].op = "Enable"

\* C19: while every subscriber keeps receiving, every Enable, Disable,
\* RegisterEnabledChanged, IsEnabled and Enabled call that has started
\* returns, and some step is always possible.
C19_EveryCallReturns ==
    /\ \A p \in Callers : AtMembership(p) ~> pc[p] = "done"
    /\ [](ENABLED NextGuard)

C19_Witness ==
    \E p, q \in Callers :
        /\ Blocked(p) /\ chanCap[enabledChanged[loc[p].k]] > 0
        /\ call[p].index \in Slots
        /\ pc[q] \in {"mem_lock", "reg_lock", "isen_rlock", "en_rlock"}

\* C20: in the resolver-less registry no set of Distance and Set calls
\* deadlocks: while a call is under way some caller can take a step.
C20_NoDeadlock ==
    (\E p \in Callers : pc[p] \notin {"idle", "done"}) => ENABLED NextOld

====
